---- MODULE Spec2Model ----
(***************************************************************************)
(* Model of internal/config/config.go of gobot-brightness: the default     *)
(* builder, the environment resolver, the JSON file loader, the two        *)
(* validation paths, the run-once construction of the validation engine    *)
(* and the min/max helpers over the stats buckets.                         *)
(*                                                                         *)
(* Go strings are sequences of one-character strings, so that parsing      *)
(* (strconv.Atoi, strconv.ParseBool, address and topic matching) is        *)
(* computed and not assumed.  A Go slice is a header (backing array,       *)
(* length) and not a value: the header DefaultConfig hands out points at   *)
(* the package-level array defaultStatsBucketsSeconds.                     *)
(***************************************************************************)
EXTENDS Integers, Sequences, FiniteSets, TLC

VARIABLES
    defaultStatsBucketsSeconds, \* contents of the package-level backing array
    sensorDefaults,             \* what defaultSensorConfig() returns
    env,                        \* the process environment: name -> value
    call,                       \* the last loader call and its argument
    ret,                        \* what that call returned
    err,                        \* the error that call returned
    conf,                       \* the Config a validation or helper runs on
    vres,                       \* result of conf.Validate(): the failing fields
    v2res,                      \* result of conf.Validat2e(): the failing check
    minres,                     \* result of conf.GetStatIntervalMin()
    maxres,                     \* result of conf.GetStatIntervalMax()
    pc,                         \* position of each caller inside Validate()
    calls,                      \* completed Validate() calls per caller
    onceDone,                   \* sync.Once: the done flag
    onceM,                      \* sync.Once: holder of the mutex, 0 if free
    validate,                   \* the package-level engine: 0 is nil
    rules,                      \* custom rules registered on that engine
    constructions,              \* how many times validator.New() ran
    registrations,              \* how many times each rule was registered
    used                        \* the engine each caller last validated with

loaderVars == <<defaultStatsBucketsSeconds, sensorDefaults, env, call, ret, err>>
checkVars == <<conf, vres, v2res, minres, maxres>>
onceVars == <<pc, calls, onceDone, onceM, validate, rules, constructions,
              registrations, used>>
vars == <<loaderVars, checkVars, onceVars>>

(***************************************************************************)
(* Bounds of the model.                                                    *)
(***************************************************************************)
MaxEnvVars == 2
MaxArrayLen == 2
MaxStatLen == 2
NumCallers == 3
MaxCalls == 2

(***************************************************************************)
(* Strings.                                                                *)
(***************************************************************************)
Digits == <<"0", "1", "2", "3", "4", "5", "6", "7", "8", "9">>

IsDigit(c) == \E i \in 1..10 : Digits[i] = c

DigitVal(c) == (CHOOSE i \in 1..10 : Digits[i] = c) - 1

RECURSIVE AllDigits(_)
AllDigits(s) == IF s = <<>> THEN TRUE ELSE IsDigit(Head(s)) /\ AllDigits(Tail(s))

RECURSIVE DecimalValue(_, _)
DecimalValue(s, acc) ==
    IF s = <<>> THEN acc ELSE DecimalValue(Tail(s), acc * 10 + DigitVal(Head(s)))

\* Index of the last occurrence of c in s, 0 when there is none.
LastIndex(s, c) ==
    IF \E i \in 1..Len(s) : s[i] = c
    THEN CHOOSE i \in 1..Len(s) : s[i] = c /\ \A j \in (i + 1)..Len(s) : s[j] # c
    ELSE 0

\* Index of the first occurrence of c in s, 0 when there is none.
FirstIndex(s, c) ==
    IF \E i \in 1..Len(s) : s[i] = c
    THEN CHOOSE i \in 1..Len(s) : s[i] = c /\ \A j \in 1..(i - 1) : s[j] # c
    ELSE 0

RECURSIVE Split(_, _)
Split(s, sep) ==
    LET i == FirstIndex(s, sep)
    IN  IF i = 0 THEN <<s>>
        ELSE <<SubSeq(s, 1, i - 1)>> \o Split(SubSeq(s, i + 1, Len(s)), sep)

StrKitchen == <<"k", "i", "t", "c", "h", "e", "n">>
Str45 == <<"4", "5">>
StrMinus7 == <<"-", "7">>
StrPlus9 == <<"+", "9">>
StrNotANumber == <<"n", "a", "n">>
StrTrue == <<"T", "R", "U", "E">>
StrOne == <<"1">>
StrMaybe == <<"m", "a", "y", "b", "e">>
StrAnyAddr == <<"0", ".", "0", ".", "0", ".", "0", ":", "8", "0">>
StrHostPort == <<"m", "q", ".", "x", ":", "1">>
StrHostSpace == <<"m", " ", "q", ":", "1">>
StrTopic == <<"h", "/", "l">>
StrTopicBadWildcard == <<"h", "/", "+", "f">>
StrTopicWildcard == <<"h", "/", "+", "/", "#">>
StrFile == <<"k", ".", "p", "e", "m">>
Str75 == <<"7", "5">>
StrAbc == <<"a", "b", "c">>

(***************************************************************************)
(* Constants of the package.                                               *)
(***************************************************************************)
BotNameUpper == "GOBOT_LUX"
defaultLogSensor == FALSE
defaultIntervalSeconds == 30
defaultMetricConfig == <<":", "9", "1", "9", "4">>
maxStatsBucketSeconds == 7200
defaultStatsBucketsLiteral == <<15, 30, 60, 120, 300, 600, 1800>>
DefaultCap == Len(defaultStatsBucketsLiteral)

(***************************************************************************)
(* Slices.  A header either points at the package-level array (global) or  *)
(* owns its elements (data).                                               *)
(***************************************************************************)
GlobalSlice(n) == [global |-> TRUE, len |-> n, data |-> <<>>]

OwnSlice(s) == [global |-> FALSE, len |-> Len(s), data |-> s]

Elems(sl) ==
    IF sl.global THEN SubSeq(defaultStatsBucketsSeconds, 1, sl.len) ELSE sl.data

(***************************************************************************)
(* Config and DefaultConfig.                                               *)
(***************************************************************************)
ZeroConfig ==
    [Placement |-> <<>>, MetricConfig |-> <<>>, IntervalSecs |-> 0,
     StatIntervals |-> OwnSlice(<<>>), LogSensor |-> FALSE,
     Host |-> <<>>, Topic |-> <<>>, StatsTopic |-> <<>>,
     ClientKeyFile |-> <<>>, ClientCertFile |-> <<>>,
     AioPollingIntervalMs |-> 0, SensorOk |-> FALSE]

defaultSensorConfig == sensorDefaults

DefaultConfig ==
    [ZeroConfig EXCEPT
        !.LogSensor = defaultLogSensor,
        !.IntervalSecs = defaultIntervalSeconds,
        !.MetricConfig = defaultMetricConfig,
        !.StatIntervals = GlobalSlice(DefaultCap),
        !.AioPollingIntervalMs = defaultSensorConfig.AioPollingIntervalMs,
        !.SensorOk = defaultSensorConfig.SensorOk]

\* A Config with its slice replaced by the elements it shows now.
Deep(c) == [c EXCEPT !.StatIntervals = Elems(c.StatIntervals)]

(***************************************************************************)
(* The environment resolver.                                               *)
(***************************************************************************)
Getenv(name) == IF name \in DOMAIN env THEN env[name] ELSE <<>>

\* strings.ToUpper leaves the names the package passes, all upper case, as
\* they are; the bot name is upper-cased to GOBOT_LUX.
computeEnvName(name) == BotNameUpper \o "_" \o name

fromEnv(name) ==
    LET val == Getenv(computeEnvName(name))
    IN  IF val = <<>> THEN [err |-> TRUE, val |-> <<>>]
        ELSE [err |-> FALSE, val |-> val]

\* strconv.Atoi: an optional sign, then at least one digit and only digits.
Atoi(s) ==
    LET signed == s # <<>> /\ Head(s) \in {"-", "+"}
        body == IF signed THEN Tail(s) ELSE s
    IN  IF body = <<>> \/ ~AllDigits(body) THEN [err |-> TRUE, val |-> 0]
        ELSE [err |-> FALSE,
              val |-> IF Head(s) = "-" THEN 0 - DecimalValue(body, 0)
                      ELSE DecimalValue(body, 0)]

StrsTrue == {<<"1">>, <<"t">>, <<"T">>, <<"T", "R", "U", "E">>,
             <<"t", "r", "u", "e">>, <<"T", "r", "u", "e">>}

StrsFalse == {<<"0">>, <<"f">>, <<"F">>, <<"F", "A", "L", "S", "E">>,
              <<"f", "a", "l", "s", "e">>, <<"F", "a", "l", "s", "e">>}

ParseBool(s) ==
    IF s \in StrsTrue THEN [err |-> FALSE, val |-> TRUE]
    ELSE IF s \in StrsFalse THEN [err |-> FALSE, val |-> FALSE]
    ELSE [err |-> TRUE, val |-> FALSE]

fromEnvInt(name) ==
    LET r == fromEnv(name)
        parsed == Atoi(r.val)
    IN  IF r.err THEN [err |-> TRUE, val |-> -1]
        ELSE IF parsed.err THEN [err |-> TRUE, val |-> -1]
        ELSE [err |-> FALSE, val |-> parsed.val]

fromEnvBool(name) ==
    LET r == fromEnv(name)
        parsed == ParseBool(r.val)
    IN  IF r.err THEN [err |-> TRUE, val |-> FALSE]
        ELSE IF parsed.err THEN [err |-> TRUE, val |-> FALSE]
        ELSE [err |-> FALSE, val |-> parsed.val]

\* Override with the error ignored.
OverrideAlways(c, field, r) == [c EXCEPT ![field] = r.val]

\* One override of ConfigFromEnv: the field is assigned only when err == nil.
Override(c, field, r) == IF r.err THEN c ELSE [c EXCEPT ![field] = r.val]

\* The sensor sub-config resolves the variables it owns, in place.
SensorConfigFromEnv(c) ==
    Override(c, "AioPollingIntervalMs", fromEnvInt("AIO_POLLING_INTERVAL_MS"))

ConfigFromEnv ==
    LET c0 == DefaultConfig
        c1 == Override(c0, "Placement", fromEnv("LOCATION"))
        c2 == Override(c1, "LogSensor", fromEnvBool("LOG_SENSOR"))
        c3 == Override(c2, "IntervalSecs", fromEnvInt("INTERVAL_S"))
        c4 == Override(c3, "Host", fromEnv("MQTT_HOST"))
        c5 == Override(c4, "Topic", fromEnv("MQTT_TOPIC"))
        c6 == Override(c5, "StatsTopic", fromEnv("MQTT_STATS_TOPIC"))
        c7 == Override(c6, "MetricConfig", fromEnv("METRICS_ADDR"))
        c8 == Override(c7, "ClientKeyFile", fromEnv("SSL_CLIENT_KEY_FILE"))
        c9 == Override(c8, "ClientCertFile", fromEnv("SSL_CLIENT_CERT_FILE"))
    IN  SensorConfigFromEnv(c9)

(***************************************************************************)
(* The file loader.  A file is unreadable or holds a document; a document  *)
(* is syntactically valid JSON or not, and a valid one is an object whose  *)
(* members map keys to typed values.                                       *)
(***************************************************************************)
JStr(s) == [t |-> "str", s |-> s, n |-> 0, b |-> FALSE, a |-> <<>>]
JNum(n) == [t |-> "num", s |-> <<>>, n |-> n, b |-> FALSE, a |-> <<>>]
JBool(b) == [t |-> "bool", s |-> <<>>, n |-> 0, b |-> b, a |-> <<>>]
JArr(a) == [t |-> "arr", s |-> <<>>, n |-> 0, b |-> FALSE, a |-> a]
JNull == [t |-> "null", s |-> <<>>, n |-> 0, b |-> FALSE, a |-> <<>>]

\* The JSON type each tagged field of Config decodes from (lines 32-36).
JsonFields ==
    [placement |-> [field |-> "Placement", t |-> "str"],
     metrics_addr |-> [field |-> "MetricConfig", t |-> "str"],
     interval_s |-> [field |-> "IntervalSecs", t |-> "num"],
     stat_intervals |-> [field |-> "StatIntervals", t |-> "arr"],
     log_sensor |-> [field |-> "LogSensor", t |-> "bool"]]

\* json.Unmarshal of an array into a slice decodes element i in place while
\* i is below the capacity, grows into a fresh array beyond it, cuts the
\* length to the number of elements, and makes an empty slice of its own
\* for an empty array.
DecodeArray(sl, a) ==
    IF a = <<>> THEN OwnSlice(<<>>)
    ELSE IF sl.global /\ Len(a) <= DefaultCap THEN GlobalSlice(Len(a))
    ELSE OwnSlice(a)

\* What decoding the array leaves in the package-level array.
DecodeArrayWrites(sl, a) ==
    IF sl.global
    THEN [i \in 1..DefaultCap |->
            IF i <= Len(a) THEN a[i] ELSE defaultStatsBucketsSeconds[i]]
    ELSE defaultStatsBucketsSeconds

\* A member whose value has another type than the field is skipped and the
\* error kept; null leaves a scalar as it is and makes a slice nil.
TypeMismatch(members, k) ==
    /\ k \in DOMAIN JsonFields
    /\ members[k].t # "null"
    /\ members[k].t # JsonFields[k].t

DecodeMember(c, k, v) ==
    IF k \notin DOMAIN JsonFields THEN c
    ELSE IF v.t = "null"
    THEN IF k = "stat_intervals" THEN [c EXCEPT !.StatIntervals = OwnSlice(<<>>)]
         ELSE c
    ELSE IF v.t # JsonFields[k].t THEN c
    ELSE IF v.t = "str" THEN [c EXCEPT ![JsonFields[k].field] = v.s]
    ELSE IF v.t = "num" THEN [c EXCEPT ![JsonFields[k].field] = v.n]
    ELSE IF v.t = "bool" THEN [c EXCEPT ![JsonFields[k].field] = v.b]
    ELSE [c EXCEPT !.StatIntervals = DecodeArray(c.StatIntervals, v.a)]

RECURSIVE DecodeMembers(_, _, _)
DecodeMembers(c, members, keys) ==
    IF keys = {} THEN c
    ELSE LET k == CHOOSE x \in keys : TRUE
         IN  DecodeMembers(DecodeMember(c, k, members[k]), members, keys \ {k})

\* json.Unmarshal(fileContent, &ret): the whole input is checked for syntax
\* before anything is decoded.
Unmarshal(doc, c) ==
    IF ~doc.syntaxOk
    THEN [conf |-> c, err |-> "syntax", array |-> defaultStatsBucketsSeconds]
    ELSE [conf |-> DecodeMembers(c, doc.members, DOMAIN doc.members),
          err |-> IF \E k \in DOMAIN doc.members : TypeMismatch(doc.members, k)
                  THEN "type" ELSE "nil",
          array |-> IF /\ "stat_intervals" \in DOMAIN doc.members
                       /\ doc.members["stat_intervals"].t = "arr"
                    THEN DecodeArrayWrites(c.StatIntervals,
                                           doc.members["stat_intervals"].a)
                    ELSE defaultStatsBucketsSeconds]

\* Unmarshalling onto a zero value instead of the defaults.
ReadJsonBaseZero == ZeroConfig

\* The value ReadJsonConfig unmarshals onto.
ReadJsonBase == DefaultConfig

\* ReadJsonConfig returning no value whenever it returns an error.
ReadJsonConfigNilOnError(file) ==
    IF ~file.readable
    THEN [ret |-> [nil |-> TRUE, conf |-> ZeroConfig], err |-> "read",
          array |-> defaultStatsBucketsSeconds]
    ELSE LET u == Unmarshal(file.doc, ReadJsonBase)
         IN  [ret |-> IF u.err = "nil" THEN [nil |-> FALSE, conf |-> u.conf]
                      ELSE [nil |-> TRUE, conf |-> ZeroConfig],
              err |-> u.err, array |-> u.array]

ReadJsonConfig(file) ==
    IF ~file.readable
    THEN [ret |-> [nil |-> TRUE, conf |-> ZeroConfig], err |-> "read",
          array |-> defaultStatsBucketsSeconds]
    ELSE LET u == Unmarshal(file.doc, ReadJsonBase)
         IN  [ret |-> [nil |-> FALSE, conf |-> u.conf], err |-> u.err,
              array |-> u.array]

(***************************************************************************)
(* Inputs of the loaders: environments, files and documents.               *)
(***************************************************************************)
EnvNames ==
    {"GOBOT_LUX_LOCATION", "GOBOT_LUX_LOG_SENSOR", "GOBOT_LUX_INTERVAL_S",
     "GOBOT_LUX_MQTT_HOST", "GOBOT_LUX_MQTT_TOPIC", "GOBOT_LUX_MQTT_STATS_TOPIC",
     "GOBOT_LUX_METRICS_ADDR", "GOBOT_LUX_SSL_CLIENT_KEY_FILE",
     "GOBOT_LUX_SSL_CLIENT_CERT_FILE", "GOBOT_LUX_AIO_POLLING_INTERVAL_MS",
     "INTERVAL_S"}

\* The values each variable is given; <<>> is a variable set to the empty
\* string, which differs from a variable that is not set.
EnvValues(name) ==
    CASE name = "GOBOT_LUX_LOCATION" -> {StrKitchen, <<>>}
      [] name = "GOBOT_LUX_LOG_SENSOR" -> {StrTrue, StrOne, StrMaybe}
      [] name = "GOBOT_LUX_INTERVAL_S" -> {Str45, StrMinus7, StrPlus9, StrNotANumber}
      [] name = "GOBOT_LUX_METRICS_ADDR" -> {StrAnyAddr, <<>>}
      [] name = "GOBOT_LUX_MQTT_HOST" -> {StrHostPort}
      [] name = "GOBOT_LUX_MQTT_TOPIC" -> {StrTopic}
      [] name = "GOBOT_LUX_MQTT_STATS_TOPIC" -> {StrTopicWildcard}
      [] name = "GOBOT_LUX_AIO_POLLING_INTERVAL_MS" -> {Str75}
      [] name = "INTERVAL_S" -> {Str75}
      [] OTHER -> {StrFile}

AllEnvValues == UNION {EnvValues(n) : n \in EnvNames}

Envs(maxVars) ==
    UNION {{e \in [S -> AllEnvValues] : \A n \in S : e[n] \in EnvValues(n)} :
           S \in {T \in SUBSET EnvNames : Cardinality(T) <= maxVars}}

EmptyEnv == [n \in {} |-> <<>>]

FewEnvs == {[n \in {"GOBOT_LUX_INTERVAL_S"} |-> Str45]}

SensorDefaultChoices ==
    {[AioPollingIntervalMs |-> 0, SensorOk |-> FALSE],
     [AioPollingIntervalMs |-> 75, SensorOk |-> TRUE]}

JAbsent == [t |-> "absent", s |-> <<>>, n |-> 0, b |-> FALSE, a |-> <<>>]

JsonElems == {5, 20}

SeqsUpTo(S, n) == UNION {[1..k -> S] : k \in 0..n}

\* An array one longer than the capacity of the default buckets.
LongArray == [i \in 1..(DefaultCap + 1) |-> 7 + i]

DocChoices ==
    [placement : {JAbsent, JStr(StrKitchen)},
     interval_s : {JAbsent, JNum(45), JStr(StrAbc)},
     stat_intervals : {JAbsent, JNull, JArr(LongArray)}
                        \cup {JArr(a) : a \in SeqsUpTo(JsonElems, MaxArrayLen)}]

Members(choice) ==
    [k \in {x \in DOMAIN choice : choice[x].t # "absent"} |-> choice[k]]

NoMembers == [k \in {} |-> JAbsent]

Readable(doc) == [readable |-> TRUE, doc |-> doc]

UnreadableFile == [readable |-> FALSE, doc |-> [syntaxOk |-> FALSE, members |-> NoMembers]]

MalformedFile == Readable([syntaxOk |-> FALSE, members |-> NoMembers])

EmptyObjectFile == Readable([syntaxOk |-> TRUE, members |-> NoMembers])

\* Documents over the remaining keys, one of them unknown to Config.
OtherMembers ==
    {[log_sensor |-> JBool(TRUE)],
     [log_sensor |-> JNum(1), metrics_addr |-> JStr(StrAnyAddr)],
     [metrics_addr |-> JNull, location |-> JStr(StrKitchen)]}

AllFiles ==
    {UnreadableFile, MalformedFile}
        \cup {Readable([syntaxOk |-> TRUE, members |-> Members(c)]) : c \in DocChoices}
        \cup {Readable([syntaxOk |-> TRUE, members |-> m]) : m \in OtherMembers}

FewFiles ==
    {UnreadableFile, EmptyObjectFile,
     Readable([syntaxOk |-> TRUE,
               members |-> [k \in {"stat_intervals"} |-> JArr(<<5>>)]])}

(***************************************************************************)
(* The loaders as operations of the package.                               *)
(***************************************************************************)
DefaultConfigCall ==
    /\ call' = [op |-> "DefaultConfig", file |-> UnreadableFile]
    /\ ret' = [nil |-> FALSE, conf |-> DefaultConfig]
    /\ err' = "nil"
    /\ UNCHANGED <<defaultStatsBucketsSeconds, sensorDefaults, env>>
    /\ UNCHANGED <<checkVars, onceVars>>

ConfigFromEnvCall ==
    /\ call' = [op |-> "ConfigFromEnv", file |-> UnreadableFile]
    /\ ret' = [nil |-> FALSE, conf |-> ConfigFromEnv]
    /\ err' = "nil"
    /\ UNCHANGED <<defaultStatsBucketsSeconds, sensorDefaults, env>>
    /\ UNCHANGED <<checkVars, onceVars>>

ReadJsonConfigCall(files) ==
    \E file \in files :
        \E r \in {ReadJsonConfig(file)} :
            /\ call' = [op |-> "ReadJsonConfig", file |-> file]
            /\ ret' = r.ret
            /\ err' = r.err
            /\ defaultStatsBucketsSeconds' = r.array
            /\ UNCHANGED <<sensorDefaults, env>>
            /\ UNCHANGED <<checkVars, onceVars>>

Unset == [set |-> FALSE, val |-> 0, err |-> FALSE]

CheckIdle ==
    /\ conf = ZeroConfig
    /\ vres = {"unset"}
    /\ v2res = "unset"
    /\ minres = Unset
    /\ maxres = Unset

OnceIdle ==
    /\ pc = [p \in {} |-> "idle"]
    /\ calls = [p \in {} |-> 0]
    /\ used = [p \in {} |-> [engine |-> 0, rules |-> {}]]
    /\ onceDone = FALSE
    /\ onceM = 0
    /\ validate = 0
    /\ rules = {}
    /\ constructions = 0
    /\ registrations = [t \in {} |-> 0]

LoaderInit(envs) ==
    /\ defaultStatsBucketsSeconds = defaultStatsBucketsLiteral
    /\ sensorDefaults \in SensorDefaultChoices
    /\ env \in envs
    /\ call = [op |-> "none", file |-> UnreadableFile]
    /\ ret = [nil |-> TRUE, conf |-> ZeroConfig]
    /\ err = "nil"

InitJson == LoaderInit(FewEnvs) /\ CheckIdle /\ OnceIdle

NextJson == DefaultConfigCall \/ ConfigFromEnvCall \/ ReadJsonConfigCall(AllFiles)

SpecJson == InitJson /\ [][NextJson]_vars

InitEnv == LoaderInit(Envs(MaxEnvVars)) /\ CheckIdle /\ OnceIdle

NextEnv == DefaultConfigCall \/ ConfigFromEnvCall \/ ReadJsonConfigCall(FewFiles)

SpecEnv == InitEnv /\ [][NextEnv]_vars

(***************************************************************************)
(* The derived stats helpers.                                              *)
(***************************************************************************)
\* The minimum scan with the comparison turned around.
RECURSIVE MinLoopTurned(_, _, _)
MinLoopTurned(list, i, min) ==
    IF i > Len(list) THEN min
    ELSE MinLoopTurned(list, i + 1, IF list[i] > min THEN list[i] ELSE min)

RECURSIVE MinLoop(_, _, _)
MinLoop(list, i, min) ==
    IF i > Len(list) THEN min
    ELSE MinLoop(list, i + 1, IF list[i] < min THEN list[i] ELSE min)

RECURSIVE MaxLoop(_, _, _)
MaxLoop(list, i, max) ==
    IF i > Len(list) THEN max
    ELSE MaxLoop(list, i + 1, IF list[i] > max THEN list[i] ELSE max)

GetStatIntervalMin(c) ==
    LET list == Elems(c.StatIntervals)
    IN  IF Len(list) = 0 THEN [val |-> -1, err |-> TRUE]
        ELSE [val |-> MinLoop(list, 1, list[1]), err |-> FALSE]

GetStatIntervalMax(c) ==
    LET list == Elems(c.StatIntervals)
    IN  IF Len(list) = 0 THEN [val |-> -1, err |-> TRUE]
        ELSE [val |-> MaxLoop(list, 1, list[1]), err |-> FALSE]

(***************************************************************************)
(* The sequential validation path.                                         *)
(***************************************************************************)
\* Go's integer division truncates toward zero.
GoDiv(a, b) == IF a >= 0 THEN a \div b ELSE 0 - ((0 - a) \div b)

\* The sensor sub-config's own Validate().
SensorValidate(c) == IF c.SensorOk THEN "nil" ELSE "sensor"

Validat2eStats(c) ==
    IF Len(Elems(c.StatIntervals)) > 0
    THEN IF GetStatIntervalMin(c).val < 1 THEN "stats_min"
         ELSE IF GetStatIntervalMax(c).val > maxStatsBucketSeconds THEN "stats_max"
         ELSE "nil"
    ELSE "nil"

\* The sequential path with both interval limits checked before the
\* sensor's sampling period.
Validat2eLimitsFirst(c) ==
    IF c.Placement = <<>> THEN "placement"
    ELSE IF c.IntervalSecs < 1 THEN "interval_min"
    ELSE IF c.IntervalSecs > 300 THEN "interval_max"
    ELSE IF c.IntervalSecs < GoDiv(c.AioPollingIntervalMs, 1000) THEN "interval_aio"
    ELSE IF SensorValidate(c) # "nil" THEN SensorValidate(c)
    ELSE Validat2eStats(c)

Validat2e(c) ==
    IF c.Placement = <<>> THEN "placement"
    ELSE IF c.IntervalSecs < 1 THEN "interval_min"
    ELSE IF c.IntervalSecs < GoDiv(c.AioPollingIntervalMs, 1000) THEN "interval_aio"
    ELSE IF c.IntervalSecs > 300 THEN "interval_max"
    ELSE IF SensorValidate(c) # "nil" THEN SensorValidate(c)
    ELSE Validat2eStats(c)

(***************************************************************************)
(* The declarative validation path: the rules of the struct tags.          *)
(***************************************************************************)
\* validator's tcp_addr: the part before the last colon is an IP address
\* and the whole resolves as host:port.
IsIP4(host) ==
    LET parts == Split(host, ".")
    IN  /\ Len(parts) = 4
        /\ \A i \in 1..4 :
              /\ parts[i] # <<>>
              /\ Len(parts[i]) <= 3
              /\ AllDigits(parts[i])
              /\ DecimalValue(parts[i], 0) <= 255

IsTCPAddr(s) ==
    LET idx == LastIndex(s, ":")
    IN  /\ idx # 0
        /\ IsIP4(SubSeq(s, 1, idx - 1))
        /\ AllDigits(SubSeq(s, idx + 1, Len(s)))

\* The broker-address matcher: non-empty, no embedded whitespace.
matchHost(s) == s # <<>> /\ \A i \in 1..Len(s) : s[i] # " "

\* The topic matcher: non-empty segments, a wildcard only as a whole
\* segment, the multi-level wildcard only as the last one.
matchTopic(s) ==
    LET segs == Split(s, "/")
    IN  /\ s # <<>>
        /\ \A i \in 1..Len(segs) :
              /\ segs[i] # <<>>
              /\ (\E j \in 1..Len(segs[i]) : segs[i][j] \in {"+", "#"})
                    => Len(segs[i]) = 1
              /\ segs[i] = <<"#">> => i = Len(segs)

validateTopic(s) == matchTopic(s)

validateBroker(s) == matchHost(s)

PlacementRule(c) == c.Placement # <<>>

MetricConfigRule(c) == c.MetricConfig = <<>> \/ IsTCPAddr(c.MetricConfig)

\* The interval rule with the upper limit excluded.
IntervalSecsRuleExclusive(c) == c.IntervalSecs >= 1 /\ c.IntervalSecs < 300

IntervalSecsRule(c) == c.IntervalSecs >= 1 /\ c.IntervalSecs <= 300

StatIntervalsRule(c) ==
    \A i \in 1..Len(Elems(c.StatIntervals)) :
        /\ Elems(c.StatIntervals)[i] >= 10
        /\ Elems(c.StatIntervals)[i] <= 3600

\* The rules of the embedded broker and sensor sub-configs.
MqttRules(c) ==
    (IF validateBroker(c.Host) THEN {} ELSE {"Host"})
        \cup (IF validateTopic(c.Topic) THEN {} ELSE {"Topic"})
        \cup (IF validateTopic(c.StatsTopic) THEN {} ELSE {"StatsTopic"})

SensorRules(c) == IF c.SensorOk THEN {} ELSE {"SensorConfig"}

\* validate.Struct(conf): the fields whose rules fail; nil when none does.
Validate(c) ==
    (IF PlacementRule(c) THEN {} ELSE {"Placement"})
        \cup (IF MetricConfigRule(c) THEN {} ELSE {"MetricConfig"})
        \cup (IF IntervalSecsRule(c) THEN {} ELSE {"IntervalSecs"})
        \cup (IF StatIntervalsRule(c) THEN {} ELSE {"StatIntervals"})
        \cup MqttRules(c)
        \cup SensorRules(c)

(***************************************************************************)
(* Configurations the validation paths and the helpers are run on.         *)
(***************************************************************************)
StatElems == {0, 5, 10, 7300}

HelperElems == {-3, 0, 15, 1800, 7300}

ValidConfig ==
    [ZeroConfig EXCEPT
        !.Placement = StrKitchen,
        !.MetricConfig = StrAnyAddr,
        !.IntervalSecs = defaultIntervalSeconds,
        !.StatIntervals = GlobalSlice(DefaultCap),
        !.Host = StrHostPort,
        !.Topic = StrTopic,
        !.StatsTopic = StrTopicWildcard,
        !.SensorOk = TRUE]

BoundaryConfigs ==
    {[ValidConfig EXCEPT
        !.Placement = f.Placement, !.MetricConfig = f.MetricConfig,
        !.IntervalSecs = f.IntervalSecs, !.StatIntervals = f.StatIntervals,
        !.Host = f.Host, !.Topic = f.Topic,
        !.AioPollingIntervalMs = f.AioPollingIntervalMs,
        !.SensorOk = f.SensorOk] :
     f \in [Placement : {<<>>, StrKitchen},
            MetricConfig : {<<>>, defaultMetricConfig, StrAnyAddr},
            IntervalSecs : {0, 1, 300, 301},
            StatIntervals : {GlobalSlice(DefaultCap)}
                \cup {OwnSlice(l) : l \in SeqsUpTo(StatElems, MaxStatLen)},
            Host : {StrHostPort, StrHostSpace},
            Topic : {StrTopic, StrTopicBadWildcard},
            AioPollingIntervalMs : {-1500, 0, 1999, 2000, 400000},
            SensorOk : BOOLEAN]}

\* Every poll interval from below the lower to above the upper limit.
SweepConfigs == {[ValidConfig EXCEPT !.IntervalSecs = i] : i \in 0..301}

HelperConfigs ==
    {ValidConfig}
        \cup {[ValidConfig EXCEPT !.StatIntervals = OwnSlice(l)] :
              l \in SeqsUpTo(HelperElems, MaxStatLen + 1)}

ValidateCall ==
    /\ vres' = Validate(conf)
    /\ UNCHANGED <<conf, v2res, minres, maxres>>
    /\ UNCHANGED <<loaderVars, onceVars>>

Validat2eCall ==
    /\ v2res' = Validat2e(conf)
    /\ UNCHANGED <<conf, vres, minres, maxres>>
    /\ UNCHANGED <<loaderVars, onceVars>>

GetStatIntervalMinCall ==
    /\ minres' = [set |-> TRUE, val |-> GetStatIntervalMin(conf).val,
                  err |-> GetStatIntervalMin(conf).err]
    /\ UNCHANGED <<conf, vres, v2res, maxres>>
    /\ UNCHANGED <<loaderVars, onceVars>>

GetStatIntervalMaxCall ==
    /\ maxres' = [set |-> TRUE, val |-> GetStatIntervalMax(conf).val,
                  err |-> GetStatIntervalMax(conf).err]
    /\ UNCHANGED <<conf, vres, v2res, minres>>
    /\ UNCHANGED <<loaderVars, onceVars>>

LoaderIdle ==
    /\ defaultStatsBucketsSeconds = defaultStatsBucketsLiteral
    /\ sensorDefaults = [AioPollingIntervalMs |-> 0, SensorOk |-> FALSE]
    /\ env = EmptyEnv
    /\ call = [op |-> "none", file |-> UnreadableFile]
    /\ ret = [nil |-> TRUE, conf |-> ZeroConfig]
    /\ err = "nil"

CheckInit(configs) ==
    /\ conf \in configs
    /\ vres = {"unset"}
    /\ v2res = "unset"
    /\ minres = Unset
    /\ maxres = Unset

InitValidate == CheckInit(BoundaryConfigs \cup SweepConfigs) /\ LoaderIdle /\ OnceIdle

NextValidate == ValidateCall \/ Validat2eCall

SpecValidate == InitValidate /\ [][NextValidate]_vars

InitStats == CheckInit(HelperConfigs) /\ LoaderIdle /\ OnceIdle

NextStats == GetStatIntervalMinCall \/ GetStatIntervalMaxCall

SpecStats == InitStats /\ [][NextStats]_vars

(***************************************************************************)
(* Validate()'s run-once construction of the engine, step by step, for     *)
(* concurrent callers.  once.Do loads the done flag; if it is not set it   *)
(* takes the mutex, loads the flag again, runs the function, stores the    *)
(* flag (the later defer) and releases the mutex (the earlier defer).      *)
(* RegisterValidation cannot fail for a non-empty tag and a non-nil        *)
(* function, so log.Fatal is never reached.                                *)
(***************************************************************************)
Procs == 1..NumCallers

CustomRules == {"mqtt_topic", "mqtt_broker"}

NotRun == [engine |-> 0, rules |-> {}]

Goto(p, to) == pc' = [pc EXCEPT ![p] = to]

ValidateEnter(p) ==
    /\ pc[p] = "idle"
    /\ calls[p] < MaxCalls
    /\ Goto(p, "fast")
    /\ UNCHANGED <<calls, onceDone, onceM, validate, rules, constructions,
                   registrations, used>>
    /\ UNCHANGED <<loaderVars, checkVars>>

OnceFast(p) ==
    /\ pc[p] = "fast"
    /\ Goto(p, IF onceDone THEN "struct" ELSE "lock")
    /\ UNCHANGED <<calls, onceDone, onceM, validate, rules, constructions,
                   registrations, used>>
    /\ UNCHANGED <<loaderVars, checkVars>>

\* Taking the mutex without waiting for it to be free.
OnceLockNoWait(p) ==
    /\ pc[p] = "lock"
    /\ onceM' = p
    /\ Goto(p, "slow")
    /\ UNCHANGED <<calls, onceDone, validate, rules, constructions,
                   registrations, used>>
    /\ UNCHANGED <<loaderVars, checkVars>>

OnceLock(p) ==
    /\ pc[p] = "lock"
    /\ onceM = 0
    /\ onceM' = p
    /\ Goto(p, "slow")
    /\ UNCHANGED <<calls, onceDone, validate, rules, constructions,
                   registrations, used>>
    /\ UNCHANGED <<loaderVars, checkVars>>

OnceSlow(p) ==
    /\ pc[p] = "slow"
    /\ Goto(p, IF onceDone THEN "unlock" ELSE "new")
    /\ UNCHANGED <<calls, onceDone, onceM, validate, rules, constructions,
                   registrations, used>>
    /\ UNCHANGED <<loaderVars, checkVars>>

EngineNew(p) ==
    /\ pc[p] = "new"
    /\ validate' = constructions + 1
    /\ rules' = {}
    /\ constructions' = constructions + 1
    /\ Goto(p, "reg_topic")
    /\ UNCHANGED <<calls, onceDone, onceM, registrations, used>>
    /\ UNCHANGED <<loaderVars, checkVars>>

RegisterValidation(p, at, tag, to) ==
    /\ pc[p] = at
    /\ rules' = rules \cup {tag}
    /\ registrations' = [registrations EXCEPT ![tag] = @ + 1]
    /\ Goto(p, to)
    /\ UNCHANGED <<calls, onceDone, onceM, validate, constructions, used>>
    /\ UNCHANGED <<loaderVars, checkVars>>

RegisterTopic(p) == RegisterValidation(p, "reg_topic", "mqtt_topic", "reg_broker")

RegisterBroker(p) == RegisterValidation(p, "reg_broker", "mqtt_broker", "store")

OnceStore(p) ==
    /\ pc[p] = "store"
    /\ onceDone' = TRUE
    /\ Goto(p, "unlock")
    /\ UNCHANGED <<calls, onceM, validate, rules, constructions,
                   registrations, used>>
    /\ UNCHANGED <<loaderVars, checkVars>>

OnceUnlock(p) ==
    /\ pc[p] = "unlock"
    /\ onceM' = 0
    /\ Goto(p, "struct")
    /\ UNCHANGED <<calls, onceDone, validate, rules, constructions,
                   registrations, used>>
    /\ UNCHANGED <<loaderVars, checkVars>>

\* validate.Struct(conf) runs against the engine the variable holds now.
ValidateStruct(p) ==
    /\ pc[p] = "struct"
    /\ used' = [used EXCEPT ![p] = [engine |-> validate, rules |-> rules]]
    /\ calls' = [calls EXCEPT ![p] = @ + 1]
    /\ Goto(p, "idle")
    /\ UNCHANGED <<onceDone, onceM, validate, rules, constructions, registrations>>
    /\ UNCHANGED <<loaderVars, checkVars>>

InitOnce ==
    /\ pc = [p \in Procs |-> "idle"]
    /\ calls = [p \in Procs |-> 0]
    /\ used = [p \in Procs |-> NotRun]
    /\ onceDone = FALSE
    /\ onceM = 0
    /\ validate = 0
    /\ rules = {}
    /\ constructions = 0
    /\ registrations = [t \in CustomRules |-> 0]
    /\ LoaderIdle
    /\ CheckIdle

NextOnce ==
    \/ \E p \in Procs : ValidateEnter(p)
    \/ \E p \in Procs : OnceFast(p)
    \/ \E p \in Procs : OnceLock(p)
    \/ \E p \in Procs : OnceSlow(p)
    \/ \E p \in Procs : EngineNew(p)
    \/ \E p \in Procs : RegisterTopic(p)
    \/ \E p \in Procs : RegisterBroker(p)
    \/ \E p \in Procs : OnceStore(p)
    \/ \E p \in Procs : OnceUnlock(p)
    \/ \E p \in Procs : ValidateStruct(p)

SpecOnce == InitOnce /\ [][NextOnce]_vars

(***************************************************************************)
(* Properties.                                                             *)
(***************************************************************************)
Returned == Deep(ret.conf)

Defaults == Deep(DefaultConfig)

List == Elems(conf.StatIntervals)

\* C1: DefaultConfig is pure: after any earlier calls of the loaders, every
\* call of DefaultConfig returns LogSensor = false, IntervalSecs = 30,
\* MetricConfig = ":9194" and StatIntervals = {15,30,60,120,300,600,1800}.
C1_DefaultConfigPure ==
    call.op = "DefaultConfig" =>
        /\ Returned.LogSensor = FALSE
        /\ Returned.IntervalSecs = 30
        /\ Returned.MetricConfig = <<":", "9", "1", "9", "4">>
        /\ Returned.StatIntervals = <<15, 30, 60, 120, 300, 600, 1800>>

\* C2: every configuration for which Validate() returns nil satisfies
\* IntervalSecs >= AioPollingIntervalMs / 1000, the division truncating
\* toward zero.
C2_ValidateKeepsSensorPeriod ==
    vres = {} =>
        IF conf.AioPollingIntervalMs >= 0
        THEN (conf.IntervalSecs + 1) * 1000 > conf.AioPollingIntervalMs
        ELSE conf.IntervalSecs * 1000 >= conf.AioPollingIntervalMs

\* Values of the other fields that are valid: placement given, metrics
\* address empty or an IP address with a port, broker host and topics well
\* formed, sensor sub-config valid.
C3_OthersValid ==
    /\ conf.Placement # <<>>
    /\ conf.MetricConfig \in {<<>>, StrAnyAddr}
    /\ conf.Host = StrHostPort
    /\ conf.Topic = StrTopic
    /\ conf.StatsTopic = StrTopicWildcard
    /\ conf.SensorOk
    /\ \A i \in 1..Len(List) : List[i] \in 10..3600

\* C3: a configuration Validate() accepts has a non-empty Placement,
\* 1 <= IntervalSecs <= 300 and every element of StatIntervals in
\* [10, 3600]; validation fails for IntervalSecs = 0 or 301 and for a list
\* containing 5; with AioPollingIntervalMs = 0 and all other fields valid it
\* succeeds for every IntervalSecs in 1..300.
C3_ValidateBounds ==
    vres # {"unset"} =>
        /\ vres = {} =>
              /\ conf.Placement # <<>>
              /\ conf.IntervalSecs \in 1..300
              /\ \A i \in 1..Len(List) : List[i] >= 10 /\ List[i] <= 3600
        /\ conf.IntervalSecs \in {0, 301} => vres # {}
        /\ (\E i \in 1..Len(List) : List[i] = 5) => vres # {}
        /\ (/\ conf.AioPollingIntervalMs = 0
            /\ C3_OthersValid
            /\ conf.IntervalSecs \in 1..300) => vres = {}

C3_Witness ==
    /\ vres = {}
    /\ conf.IntervalSecs = 300
    /\ conf.AioPollingIntervalMs = 0
    /\ List = <<10, 10>>

\* C4: the two validation paths enforce the same rule set: Validate()
\* returns nil exactly when Validat2e() returns nil.
C4_PathsAgree ==
    (vres # {"unset"} /\ v2res # "unset") => (vres = {} <=> v2res = "nil")

\* What each variable of the environment resolver parses to, given
\* independently of the parsers of the model.
C5_IntOf(s) ==
    CASE s = <<"4", "5">> -> <<45>>
      [] s = <<"-", "7">> -> <<-7>>
      [] s = <<"+", "9">> -> <<9>>
      [] s = <<"7", "5">> -> <<75>>
      [] OTHER -> <<>>

C5_BoolOf(s) ==
    CASE s = <<"T", "R", "U", "E">> -> <<TRUE>>
      [] s = <<"1">> -> <<TRUE>>
      [] OTHER -> <<>>

\* The value a variable carries: none when it is not set or set to the
\* empty string.
C5_Value(name) ==
    IF name \in DOMAIN env /\ env[name] # <<>> THEN <<env[name]>> ELSE <<>>

C5_Field(field, parsed) ==
    ret.conf[field] = IF parsed # <<>> THEN parsed[1] ELSE DefaultConfig[field]

C5_Str(name) == C5_Value(name)

C5_Int(name) == IF C5_Value(name) = <<>> THEN <<>> ELSE C5_IntOf(C5_Value(name)[1])

C5_Bool(name) == IF C5_Value(name) = <<>> THEN <<>> ELSE C5_BoolOf(C5_Value(name)[1])

\* C5 (amended): ConfigFromEnv never fails and sets each of the nine fields
\* to the variable's parsed value if and only if the GOBOT_LUX_-prefixed
\* variable is set to a non-empty value that parses, and otherwise leaves it
\* at its default, independently of every other variable; with only
\* INTERVAL_S=45 set the result equals the defaults except
\* IntervalSecs = 45, and INTERVAL_S=notanumber leaves the default.
C5_EnvOverrides ==
    call.op = "ConfigFromEnv" =>
        /\ err = "nil"
        /\ ~ret.nil
        /\ C5_Field("Placement", C5_Str("GOBOT_LUX_LOCATION"))
        /\ C5_Field("LogSensor", C5_Bool("GOBOT_LUX_LOG_SENSOR"))
        /\ C5_Field("IntervalSecs", C5_Int("GOBOT_LUX_INTERVAL_S"))
        /\ C5_Field("Host", C5_Str("GOBOT_LUX_MQTT_HOST"))
        /\ C5_Field("Topic", C5_Str("GOBOT_LUX_MQTT_TOPIC"))
        /\ C5_Field("StatsTopic", C5_Str("GOBOT_LUX_MQTT_STATS_TOPIC"))
        /\ C5_Field("MetricConfig", C5_Str("GOBOT_LUX_METRICS_ADDR"))
        /\ C5_Field("ClientKeyFile", C5_Str("GOBOT_LUX_SSL_CLIENT_KEY_FILE"))
        /\ C5_Field("ClientCertFile", C5_Str("GOBOT_LUX_SSL_CLIENT_CERT_FILE"))
        /\ Returned.StatIntervals = Defaults.StatIntervals
        /\ env = [n \in {"GOBOT_LUX_INTERVAL_S"} |-> <<"4", "5">>]
              => Returned = [Defaults EXCEPT !.IntervalSecs = 45]
        /\ env = [n \in {"GOBOT_LUX_INTERVAL_S"} |-> <<"n", "a", "n">>]
              => Returned = Defaults

\* A malformed boolean beside a well-formed integer.
C5_Witness ==
    /\ call.op = "ConfigFromEnv"
    /\ DOMAIN env = {"GOBOT_LUX_LOG_SENSOR", "GOBOT_LUX_INTERVAL_S"}
    /\ env["GOBOT_LUX_LOG_SENSOR"] = StrMaybe
    /\ env["GOBOT_LUX_INTERVAL_S"] = Str45
    /\ ret.conf.IntervalSecs = 45
    /\ ret.conf.LogSensor = FALSE

C5_Present(field, name) ==
    ret.conf[field] = IF name \in DOMAIN env THEN env[name] ELSE DefaultConfig[field]

\* C5 as stated, for the fields that take the variable's value unparsed:
\* the field is set to the variable's value if and only if the variable is
\* present, and is otherwise left at its default.
C5_PresentOverrides ==
    call.op = "ConfigFromEnv" =>
        /\ C5_Present("Placement", "GOBOT_LUX_LOCATION")
        /\ C5_Present("Host", "GOBOT_LUX_MQTT_HOST")
        /\ C5_Present("Topic", "GOBOT_LUX_MQTT_TOPIC")
        /\ C5_Present("StatsTopic", "GOBOT_LUX_MQTT_STATS_TOPIC")
        /\ C5_Present("MetricConfig", "GOBOT_LUX_METRICS_ADDR")
        /\ C5_Present("ClientKeyFile", "GOBOT_LUX_SSL_CLIENT_KEY_FILE")
        /\ C5_Present("ClientCertFile", "GOBOT_LUX_SSL_CLIENT_CERT_FILE")

\* The keys of the JSON document, the field each sets and the JSON type the
\* field takes.
JsonKeys == {"placement", "metrics_addr", "interval_s", "stat_intervals", "log_sensor"}

KeyField(k) ==
    CASE k = "placement" -> "Placement"
      [] k = "metrics_addr" -> "MetricConfig"
      [] k = "interval_s" -> "IntervalSecs"
      [] k = "stat_intervals" -> "StatIntervals"
      [] k = "log_sensor" -> "LogSensor"

KeyType(k) ==
    CASE k \in {"placement", "metrics_addr"} -> "str"
      [] k = "interval_s" -> "num"
      [] k = "stat_intervals" -> "arr"
      [] k = "log_sensor" -> "bool"

UntaggedFields ==
    {"Host", "Topic", "StatsTopic", "ClientKeyFile", "ClientCertFile",
     "AioPollingIntervalMs", "SensorOk"}

Loaded == call.file.doc.members

KeyValue(k) ==
    CASE Loaded[k].t = "str" -> Loaded[k].s
      [] Loaded[k].t = "num" -> Loaded[k].n
      [] Loaded[k].t = "bool" -> Loaded[k].b
      [] Loaded[k].t = "arr" -> Loaded[k].a

\* C6: ReadJsonConfig on a readable, valid JSON object overlays only the
\* keys present in the document onto the defaults: a field whose key is
\* absent equals DefaultConfig()'s, a field whose key is present with a value
\* of its type takes that value; {} yields a value deep-equal to
\* DefaultConfig() and {"placement":"kitchen"} differs from it in Placement
\* alone.
C6_OverlayOnDefaults ==
    (call.op = "ReadJsonConfig" /\ call.file.readable /\ call.file.doc.syntaxOk) =>
        /\ ~ret.nil
        /\ \A k \in JsonKeys \ DOMAIN Loaded :
              Returned[KeyField(k)] = Defaults[KeyField(k)]
        /\ \A f \in UntaggedFields : Returned[f] = Defaults[f]
        /\ \A k \in JsonKeys \cap DOMAIN Loaded :
              Loaded[k].t = KeyType(k) => Returned[KeyField(k)] = KeyValue(k)
        /\ DOMAIN Loaded = {} => (Returned = Defaults /\ err = "nil")
        /\ Loaded = [k \in {"placement"} |-> JStr(<<"k", "i", "t", "c", "h", "e", "n">>)]
              => (/\ Returned = [Defaults EXCEPT
                                    !.Placement = <<"k", "i", "t", "c", "h", "e", "n">>]
                  /\ err = "nil")

C6_Witness ==
    /\ call.op = "ReadJsonConfig"
    /\ call.file.readable
    /\ call.file.doc.syntaxOk
    /\ DOMAIN Loaded = {"placement"}
    /\ Returned.Placement = StrKitchen
    /\ Returned.IntervalSecs = 30

\* Whether decoding the document fails: it is not valid JSON, or a key of a
\* field carries a value of another type than the field.
C7_DecodeFails ==
    \/ ~call.file.doc.syntaxOk
    \/ \E k \in JsonKeys \cap DOMAIN Loaded :
          Loaded[k].t \notin {KeyType(k), "null"}

\* C7: ReadJsonConfig reports its two failures distinctly: for an unreadable
\* path a non-nil error and a nil result; for a readable file whose JSON is
\* malformed or has an incompatible field type a non-nil error together with
\* a non-nil, default-based, partially applied Configuration.
C7_FailuresDistinct ==
    call.op = "ReadJsonConfig" =>
        /\ ~call.file.readable => (err = "read" /\ ret.nil)
        /\ call.file.readable => (err # "read" /\ ~ret.nil)
        /\ (call.file.readable /\ C7_DecodeFails) =>
              /\ err \in {"syntax", "type"}
              /\ ~call.file.doc.syntaxOk => Returned = Defaults
              /\ \A k \in JsonKeys \cap DOMAIN Loaded :
                    IF Loaded[k].t = KeyType(k)
                    THEN Returned[KeyField(k)] = KeyValue(k)
                    ELSE Loaded[k].t # "null"
                            => Returned[KeyField(k)] = Defaults[KeyField(k)]
        /\ (call.file.readable /\ ~C7_DecodeFails) => err = "nil"

\* A type mismatch beside a key that is applied.
C7_Witness ==
    /\ call.op = "ReadJsonConfig"
    /\ call.file.readable
    /\ DOMAIN Loaded = {"placement", "interval_s"}
    /\ Loaded["interval_s"].t = "str"
    /\ err = "type"
    /\ ~ret.nil
    /\ Returned.Placement = StrKitchen
    /\ Returned.IntervalSecs = 30

FullyRegistered == [engine |-> 1, rules |-> {"mqtt_topic", "mqtt_broker"}]

\* C8: under any interleaving of concurrent first calls to Validate(), the
\* engine is constructed and its two custom rules registered exactly once,
\* no caller runs validation against an engine that is nil or not yet fully
\* registered, and every later call reuses that same engine.
C8_EngineBuiltOnce ==
    /\ constructions <= 1
    /\ \A t \in DOMAIN registrations : registrations[t] <= 1
    /\ \A p \in DOMAIN pc :
          /\ pc[p] = "struct" =>
                /\ validate = 1
                /\ rules = {"mqtt_topic", "mqtt_broker"}
                /\ constructions = 1
                /\ \A t \in DOMAIN registrations : registrations[t] = 1
          /\ calls[p] > 0 => used[p] = FullyRegistered

\* Every caller has made its first and its later calls.
C8_Witness ==
    /\ DOMAIN pc # {}
    /\ \A p \in DOMAIN pc :
          calls[p] = MaxCalls /\ used[p] = FullyRegistered /\ pc[p] = "idle"

C9_Result(r) ==
    IF List = <<>> THEN r.err
    ELSE /\ ~r.err
         /\ \E i \in 1..Len(List) : List[i] = r.val

\* C9: for every non-empty StatIntervals list, unsorted and with duplicates
\* allowed, GetStatIntervalMin returns (the smallest element, nil) and
\* GetStatIntervalMax (the largest element, nil), leaving the list
\* unchanged; on an empty list both return an error; on the default buckets
\* they return (15, nil) and (1800, nil).
C9_MinMax ==
    [][/\ minres' # minres =>
            /\ conf' = conf
            /\ C9_Result(minres')
            /\ \A i \in 1..Len(List) : minres'.val <= List[i]
            /\ List = <<15, 30, 60, 120, 300, 600, 1800>> => minres'.val = 15
       /\ maxres' # maxres =>
            /\ conf' = conf
            /\ C9_Result(maxres')
            /\ \A i \in 1..Len(List) : maxres'.val >= List[i]
            /\ List = <<15, 30, 60, 120, 300, 600, 1800>> => maxres'.val = 1800
      ]_vars

\* An unsorted list with a duplicate.
C9_Witness ==
    /\ List = <<1800, 15, 1800>>
    /\ minres = [set |-> TRUE, val |-> 15, err |-> FALSE]
    /\ maxres = [set |-> TRUE, val |-> 1800, err |-> FALSE]

\* The rules of the sequential path a configuration violates.
C10_PlacementEmpty == conf.Placement = <<>>

C10_BelowLimit == conf.IntervalSecs < 1

C10_AboveLimit == conf.IntervalSecs > 300

C10_FasterThanSensor ==
    IF conf.AioPollingIntervalMs >= 0
    THEN (conf.IntervalSecs + 1) * 1000 <= conf.AioPollingIntervalMs
    ELSE conf.IntervalSecs * 1000 < conf.AioPollingIntervalMs

C10_SensorInvalid == ~conf.SensorOk

C10_BucketTooSmall == \E i \in 1..Len(List) : List[i] < 1

C10_BucketTooBig == \E i \in 1..Len(List) : List[i] > 7200

\* The rule of the priority order an error of Validat2e() belongs to.
C10_RuleOf(e) ==
    CASE e = "placement" -> 1
      [] e \in {"interval_min", "interval_max"} -> 2
      [] e = "interval_aio" -> 3
      [] e = "sensor" -> 4
      [] e \in {"stats_min", "stats_max"} -> 5
      [] e = "nil" -> 0

C10_FirstRuleViolated ==
    IF C10_PlacementEmpty THEN 1
    ELSE IF C10_BelowLimit \/ C10_AboveLimit THEN 2
    ELSE IF C10_FasterThanSensor THEN 3
    ELSE IF C10_SensorInvalid THEN 4
    ELSE IF C10_BucketTooSmall \/ C10_BucketTooBig THEN 5
    ELSE 0

\* C10 as stated: Validat2e() reports the lowest-numbered violated rule of
\* the priority order, so IntervalSecs > 300 together with a violated
\* rule 3 is reported as a rule 2 failure.
C10_PriorityOrder == v2res # "unset" => C10_RuleOf(v2res) = C10_FirstRuleViolated

\* C10 (amended): Validat2e() reports the first failing check in the order
\* Placement non-empty, IntervalSecs >= 1,
\* IntervalSecs >= AioPollingIntervalMs/1000, IntervalSecs <= 300, sensor
\* sub-config, stats-bucket minimum, stats-bucket maximum; IntervalSecs > 300
\* together with a violated rule 3 is reported as a rule 3 failure.
C10_CheckOrder ==
    v2res # "unset" =>
        v2res = IF C10_PlacementEmpty THEN "placement"
                ELSE IF C10_BelowLimit THEN "interval_min"
                ELSE IF C10_FasterThanSensor THEN "interval_aio"
                ELSE IF C10_AboveLimit THEN "interval_max"
                ELSE IF C10_SensorInvalid THEN "sensor"
                ELSE IF C10_BucketTooSmall THEN "stats_min"
                ELSE IF C10_BucketTooBig THEN "stats_max"
                ELSE "nil"

C10_Witness ==
    /\ v2res = "interval_aio"
    /\ conf.IntervalSecs > 300
    /\ C10_FasterThanSensor

====
